---- MODULE Spec2Model ----
(***************************************************************************)
(* blahfeed: fetch several RSS/Atom feeds through an on-disk cache, merge  *)
(* their entries by timestamp and emit one "Hybrid Feed".                  *)
(*                                                                         *)
(* Spec         one run of main(): generate_hybrid_feed over a URL list,   *)
(*              one parse_feed task per URL, interleaved by the event loop *)
(* SpecIdentity the feed identity of two URL lists, side by side           *)
(***************************************************************************)
EXTENDS Integers, Sequences, FiniteSets, TLC

(* ------------------------------ bounds --------------------------------- *)
\* longest URL list given on the command line
MaxUrls == 2
\* the clock stops advancing at this tick
MaxTime == 2
\* largest --max-age tried
MaxMaxAge == 1
\* longest URL list compared in SpecIdentity
MaxIdUrls == 3
\* how many times the program is run in SpecRuns
MaxRuns == 2
\* longest URL list of a run in SpecRuns
MaxRunUrls == 1
\* longest URL whose cache path SpecKey computes
MaxKeyUrlLen == 2

(* ------------------------- strings and URLs ---------------------------- *)
\* A str is a sequence of one-character strings.
\* Code point of a character (ord), for the characters the model uses.
Ord(c) ==
    CASE c = "\n" -> 10
      [] c = "-"  -> 45
      [] c = "/"  -> 47
      [] c = "A"  -> 65
      [] c = "B"  -> 66
      [] c = "a"  -> 97
      [] c = "b"  -> 98
      [] c = "h"  -> 104

\* str.__lt__: lexicographic order by code point, a proper prefix is smaller
RECURSIVE StrLess(_, _)
StrLess(s, t) ==
    IF t = <<>> THEN FALSE
    ELSE IF s = <<>> THEN TRUE
    ELSE IF Head(s) = Head(t) THEN StrLess(Tail(s), Tail(t))
    ELSE Ord(Head(s)) < Ord(Head(t))

\* the URLs a run is given
Urls == { <<"h", "/", "a">>, <<"h", "/", "b">> }

\* the URLs whose identities are compared (no URL contains a line feed)
IdUrls == { <<"a">>, <<"b">>, <<"a", "b">> }

\* the characters the regular expression [^a-z0-9-] does NOT match
KeyChars ==
    { "a", "b", "c", "d", "e", "f", "g", "h", "i", "j", "k", "l", "m",
      "n", "o", "p", "q", "r", "s", "t", "u", "v", "w", "x", "y", "z",
      "0", "1", "2", "3", "4", "5", "6", "7", "8", "9", "-" }

\* re.sub("[^a-z0-9-]+", "-", url): every maximal run of other characters
\* becomes one "-"
RECURSIVE ReSub(_, _)
ReSub(s, inRun) ==
    IF s = <<>> THEN <<>>
    ELSE IF Head(s) \in KeyChars THEN <<Head(s)>> \o ReSub(Tail(s), FALSE)
    ELSE IF inRun THEN ReSub(Tail(s), TRUE)
    ELSE <<"-">> \o ReSub(Tail(s), TRUE)

\* cache_path = CACHE_ROOT / re.sub(...): the file a URL is cached in
CachePath(url) == ReSub(url, FALSE)

CacheKeys == { CachePath(u) : u \in Urls }

(* --------------------------- feed identity ----------------------------- *)
\* sorted(list of str): insertion of x behind every element not greater
RECURSIVE InsertStr(_, _)
InsertStr(x, s) ==
    IF s = <<>> THEN <<x>>
    ELSE IF StrLess(x, Head(s)) THEN <<x>> \o s
    ELSE <<Head(s)>> \o InsertStr(x, Tail(s))

RECURSIVE SortedStrs(_)
SortedStrs(l) ==
    IF l = <<>> THEN <<>>
    ELSE InsertStr(l[Len(l)], SortedStrs(SubSeq(l, 1, Len(l) - 1)))

\* "\n".join(l)
RECURSIVE JoinNl(_)
JoinNl(l) ==
    IF l = <<>> THEN <<>>
    ELSE IF Len(l) = 1 THEN l[1]
    ELSE l[1] \o <<"\n">> \o JoinNl(Tail(l))

\* the text whose SHA-256 hex digest names the feed, but joined in the
\* order the URLs were given
DigestInputUnsorted(feed_urls) == JoinNl(feed_urls)

\* "\n".join(sorted(feed_urls)): the text whose SHA-256 hex digest names the
\* feed; SHA-256 itself is a function of this text and is not modelled
DigestInput(feed_urls) == JoinNl(SortedStrs(feed_urls))

\* fg.id(f"feed-{digest}")
FeedId(feed_urls) == [prefix |-> "feed-", sha256_of |-> DigestInput(feed_urls)]

(* ------------------------- payloads and feeds -------------------------- *)
\* entry.get("updated_parsed") is None: the entry has no such timestamp
\* (a struct_time is never falsy, so 0 stands for None only)
NoTime == 0

\* feedparser.parse(content.decode()): the entries of each payload the model
\* serves.  "x0" is what an earlier run left in the cache, "x3" has one entry
\* without any timestamp, "bad" is not UTF-8.
Feed(content) ==
    CASE content = "x0" -> << [guid |-> "o1", updated |-> 1, published |-> 1] >>
      [] content = "x1" -> << [guid |-> "a1", updated |-> 2, published |-> 1],
                              [guid |-> "a2", updated |-> NoTime, published |-> 3] >>
      [] content = "x2" -> << [guid |-> "b1", updated |-> NoTime, published |-> 2],
                              [guid |-> "b2", updated |-> 3, published |-> NoTime] >>
      [] content = "x3" -> << [guid |-> "n1", updated |-> NoTime, published |-> NoTime] >>
      [] OTHER -> << >>

\* content.decode() raises UnicodeDecodeError
DecodeRaises(content) == content = "bad"

\* what the server of a URL answers in this run: an HTTP error status, or
\* 200 with one of the payloads
Responses == { "err", "x1", "x2", "x3", "bad" }

(* ------------------------------- merge --------------------------------- *)
\* key=lambda item: item.get("updated_parsed") or item.get("published_parsed")
SortKey(item) == IF item.updated # NoTime THEN item.updated ELSE item.published

\* chain(*(f["entries"] for f in feeds))
RECURSIVE Chain(_)
Chain(fs) == IF fs = <<>> THEN <<>> ELSE Head(fs) \o Chain(Tail(fs))

\* a descending sort that puts x in front of the entries with an equal key
RECURSIVE InsertEntryBeforeEqual(_, _)
InsertEntryBeforeEqual(x, s) ==
    IF s = <<>> THEN <<x>>
    ELSE IF SortKey(x) >= SortKey(Head(s)) THEN <<x>> \o s
    ELSE <<Head(s)>> \o InsertEntryBeforeEqual(x, Tail(s))

\* sorted(..., reverse=True) is stable: x, which comes after all of s in
\* the input, goes behind every entry whose key is not smaller
RECURSIVE InsertEntry(_, _)
InsertEntry(x, s) ==
    IF s = <<>> THEN <<x>>
    ELSE IF SortKey(x) > SortKey(Head(s)) THEN <<x>> \o s
    ELSE <<Head(s)>> \o InsertEntry(x, Tail(s))

RECURSIVE SortedEntries(_)
SortedEntries(l) ==
    IF l = <<>> THEN <<>>
    ELSE CHOOSE out \in { InsertEntry(l[Len(l)], s) :
                             s \in { SortedEntries(SubSeq(l, 1, Len(l) - 1)) } } : TRUE

\* sorted() compares keys only when there are two or more of them; a None
\* key does not compare with anything (TypeError)
SortRaises(l) == Len(l) >= 2 /\ \E k \in 1..Len(l) : SortKey(l[k]) = NoTime

(* ------------------------------- state --------------------------------- *)
VARIABLES
    feed_urls,   \* args.url
    max_age,     \* args.max_age
    server,      \* what each URL's server answers in this run
    now,         \* time.time()
    cache,       \* the files under CACHE_ROOT: content and st_mtime
    pc,          \* where generate_hybrid_feed is
    tpc,         \* where each parse_feed task is
    cache_age,   \* parse_feed's local cache_age
    content,     \* parse_feed's local content
    status,      \* the response status each task got
    nreq,        \* how many times each task called sess.get
    feeds,       \* the result of each task
    feed_id,     \* fg.id
    output,      \* the entries of the emitted feed, in order
    lhs, rhs,    \* SpecIdentity: two URL lists
    idl, idr,    \* SpecIdentity: their feed ids
    raised,      \* the OSError each task's file access raised, if any
    peer_seen,   \* the bytes another process last read from a fresh cache file
    run,         \* SpecRuns: which run of the program this is
    written,     \* every (file, bytes, time) a live fetch wrote to the cache
    ua, ub,      \* SpecKey: two URLs
    ka, kb       \* SpecKey: their cache paths

vars == << feed_urls, max_age, server, now, cache, pc, tpc, cache_age, content,
           status, nreq, feeds, feed_id, output, lhs, rhs, idl, idr,
           raised, peer_seen, run, written, ua, ub, ka, kb >>

runVars == << feed_urls, max_age, server, now, cache, pc, tpc, cache_age,
              content, status, nreq, feeds, feed_id, output >>

idVars == << lhs, rhs, idl, idr >>

extVars == << raised, peer_seen, run, ua, ub, ka, kb >>

\* get_file_age returns None
NoAge == -1

NoId == [prefix |-> "", sha256_of |-> <<>>]

NoFile == [exists |-> FALSE, content |-> "", mtime |-> 0]

Tasks == DOMAIN tpc

\* the other process has not read a cache file
NotRead == "-"

\* the sequences over S of length lo..hi
SeqsOf(S, lo, hi) == UNION { [1..n -> S] : n \in lo..hi }

(* --------------------------- the cache files --------------------------- *)
\* get_file_age(p): None when there is no such file, else now - st_mtime
get_file_age(p) ==
    IF ~cache[p].exists THEN NoAge ELSE now - cache[p].mtime

\* the cache file of a URL
FileOfUrl(url) == cache[CachePath(url)]

\* a fetcher that also refetches an entry exactly max_age old
NeedsFetchAtEqual(age) == age = NoAge \/ age >= max_age

\* cache_age is None or cache_age > max_age
NeedsFetch(age) == age = NoAge \/ age > max_age

(* ------------------------------- one run ------------------------------- *)
Init ==
    /\ feed_urls \in SeqsOf(Urls, 1, MaxUrls)
    /\ max_age \in 0..MaxMaxAge
    /\ server \in [Urls -> Responses]
    /\ now = 0
    /\ cache \in [CacheKeys -> { NoFile, [exists |-> TRUE, content |-> "x0", mtime |-> 0] }]
    /\ pc = "main"
    /\ tpc = [i \in 1..Len(feed_urls) |-> "new"]
    /\ cache_age = [i \in 1..Len(feed_urls) |-> NoAge]
    /\ content = [i \in 1..Len(feed_urls) |-> ""]
    /\ status = [i \in 1..Len(feed_urls) |-> ""]
    /\ nreq = [i \in 1..Len(feed_urls) |-> 0]
    /\ feeds = [i \in 1..Len(feed_urls) |-> <<>>]
    /\ feed_id = NoId
    /\ output = <<>>
    /\ lhs = <<>> /\ rhs = <<>> /\ idl = NoId /\ idr = NoId
    /\ raised = [i \in 1..Len(feed_urls) |-> ""]
    /\ written = { [file |-> k, content |-> cache[k].content, time |-> cache[k].mtime] :
                       k \in { c \in CacheKeys : cache[c].exists } }
    /\ peer_seen = NotRead /\ run = 1
    /\ ua = <<>> /\ ub = <<>> /\ ka = <<>> /\ kb = <<>>

\* every task has run up to its first await: the event loop runs the first
\* step of each task gather() created before it polls for any I/O
AllStarted == \A i \in Tasks : tpc[i] \notin { "new", "start" }

\* a run that fetches each distinct URL once: later occurrences of a URL get
\* no task of their own
BeginDistinct ==
    /\ pc = "main"
    /\ feed_id' = FeedId(feed_urls)
    /\ tpc' = [i \in Tasks |-> IF \E j \in 1..(i - 1) : feed_urls[j] = feed_urls[i]
                               THEN "done" ELSE "start"]
    /\ pc' = "gather"
    /\ UNCHANGED << feed_urls, max_age, server, now, cache, cache_age, content,
                    status, nreq, feeds, output, idVars, extVars, written >>

\* generate_hybrid_feed up to the await on gather(): the digest, the session,
\* one parse_feed task per URL of the list (duplicates included)
Begin ==
    /\ pc = "main"
    /\ feed_id' = FeedId(feed_urls)
    /\ tpc' = [i \in Tasks |-> "start"]
    /\ pc' = "gather"
    /\ UNCHANGED << feed_urls, max_age, server, now, cache, cache_age, content,
                    status, nreq, feeds, output, idVars, extVars, written >>

\* a fetcher whose cache hit also renews the mtime of the file
StartTouching(i) ==
    /\ pc = "gather"
    /\ tpc[i] = "start"
    /\ LET cache_path == CachePath(feed_urls[i])
           age == get_file_age(cache_path)
       IN  /\ cache_age' = [cache_age EXCEPT ![i] = age]
           /\ IF NeedsFetch(age)
              THEN /\ nreq' = [nreq EXCEPT ![i] = @ + 1]
                   /\ tpc' = [tpc EXCEPT ![i] = "get"]
                   /\ UNCHANGED << content, cache >>
              ELSE /\ content' = [content EXCEPT ![i] = cache[cache_path].content]
                   /\ tpc' = [tpc EXCEPT ![i] = "parse"]
                   /\ cache' = [cache EXCEPT ![cache_path].mtime = now]
                   /\ UNCHANGED nreq
    /\ UNCHANGED << feed_urls, max_age, server, now, pc, status, feeds,
                    feed_id, output, idVars, extVars, written >>

\* parse_feed up to its first await: look at the cache file, then either
\* call sess.get or read the file
Start(i) ==
    /\ pc = "gather"
    /\ tpc[i] = "start"
    /\ LET cache_path == CachePath(feed_urls[i])
           age == get_file_age(cache_path)
       IN  /\ cache_age' = [cache_age EXCEPT ![i] = age]
           /\ IF NeedsFetch(age)
              THEN /\ nreq' = [nreq EXCEPT ![i] = @ + 1]
                   /\ tpc' = [tpc EXCEPT ![i] = "get"]
                   /\ UNCHANGED content
              ELSE /\ content' = [content EXCEPT ![i] = cache[cache_path].content]
                   /\ tpc' = [tpc EXCEPT ![i] = "parse"]
                   /\ UNCHANGED nreq
    /\ UNCHANGED << feed_urls, max_age, server, now, cache, pc, status, feeds,
                    feed_id, output, idVars, extVars, written >>

\* a fetcher that answers an error status by asking once more
GetRespRetry(i) ==
    /\ pc = "gather"
    /\ tpc[i] = "get"
    /\ AllStarted
    /\ status' = [status EXCEPT ![i] = IF server[feed_urls[i]] = "err" THEN "err" ELSE "ok"]
    /\ IF server[feed_urls[i]] = "err"
       THEN IF nreq[i] < 2
            THEN /\ nreq' = [nreq EXCEPT ![i] = @ + 1]
                 /\ UNCHANGED tpc
            ELSE /\ tpc' = [tpc EXCEPT ![i] = "failed"]
                 /\ UNCHANGED nreq
       ELSE /\ tpc' = [tpc EXCEPT ![i] = "read"]
            /\ UNCHANGED nreq
    /\ UNCHANGED << feed_urls, max_age, server, now, cache, pc, cache_age, content,
                    feeds, feed_id, output, idVars, extVars, written >>

\* a fetcher that answers an error status by using the file it has
GetRespFallback(i) ==
    /\ pc = "gather"
    /\ tpc[i] = "get"
    /\ AllStarted
    /\ status' = [status EXCEPT ![i] = IF server[feed_urls[i]] = "err" THEN "err" ELSE "ok"]
    /\ IF server[feed_urls[i]] = "err"
       THEN IF cache[CachePath(feed_urls[i])].exists
            THEN /\ content' = [content EXCEPT ![i] = cache[CachePath(feed_urls[i])].content]
                 /\ tpc' = [tpc EXCEPT ![i] = "parse"]
            ELSE /\ tpc' = [tpc EXCEPT ![i] = "failed"]
                 /\ UNCHANGED content
       ELSE /\ tpc' = [tpc EXCEPT ![i] = "read"]
            /\ UNCHANGED content
    /\ UNCHANGED << feed_urls, max_age, server, now, cache, pc, cache_age, nreq,
                    feeds, feed_id, output, idVars, extVars, written >>

\* a fetcher that stores the body of the response before it looks at the
\* status
GetRespStoreThenRaise(i) ==
    /\ pc = "gather"
    /\ tpc[i] = "get"
    /\ AllStarted
    /\ status' = [status EXCEPT ![i] = IF server[feed_urls[i]] = "err" THEN "err" ELSE "ok"]
    /\ tpc' = [tpc EXCEPT ![i] = IF server[feed_urls[i]] = "err" THEN "failed" ELSE "read"]
    /\ cache' = IF server[feed_urls[i]] = "err"
                THEN [cache EXCEPT ![CachePath(feed_urls[i])] =
                         [exists |-> TRUE, content |-> "err", mtime |-> now]]
                ELSE cache
    /\ UNCHANGED << feed_urls, max_age, server, now, pc, cache_age, content,
                    nreq, feeds, feed_id, output, idVars, extVars, written >>

\* resp = await sess.get(url); resp.raise_for_status()
GetResp(i) ==
    /\ pc = "gather"
    /\ tpc[i] = "get"
    /\ AllStarted
    /\ status' = [status EXCEPT ![i] = IF server[feed_urls[i]] = "err" THEN "err" ELSE "ok"]
    /\ tpc' = [tpc EXCEPT ![i] = IF server[feed_urls[i]] = "err" THEN "failed" ELSE "read"]
    /\ UNCHANGED << feed_urls, max_age, server, now, cache, pc, cache_age, content,
                    nreq, feeds, feed_id, output, idVars, extVars, written >>

\* content = await resp.content.read(), then the cache file is written
ReadBody(i) ==
    /\ pc = "gather"
    /\ tpc[i] = "read"
    /\ content' = [content EXCEPT ![i] = server[feed_urls[i]]]
    /\ cache' = [cache EXCEPT ![CachePath(feed_urls[i])] =
                    [exists |-> TRUE, content |-> server[feed_urls[i]], mtime |-> now]]
    /\ written' = written \cup { [file |-> CachePath(feed_urls[i]),
                                   content |-> server[feed_urls[i]], time |-> now] }
    /\ tpc' = [tpc EXCEPT ![i] = "parse"]
    /\ UNCHANGED << feed_urls, max_age, server, now, pc, cache_age, status, nreq,
                    feeds, feed_id, output, idVars, extVars >>

\* a parse whose exception is lost in the worker thread: the task waits for
\* a result that never comes
ParseLosingError(i) ==
    /\ pc = "gather"
    /\ tpc[i] = "parse"
    /\ AllStarted
    /\ IF DecodeRaises(content[i])
       THEN /\ tpc' = [tpc EXCEPT ![i] = "waiting"]
            /\ UNCHANGED feeds
       ELSE /\ tpc' = [tpc EXCEPT ![i] = "done"]
            /\ feeds' = [feeds EXCEPT ![i] = Feed(content[i])]
    /\ UNCHANGED << feed_urls, max_age, server, now, cache, pc, cache_age, content,
                    status, nreq, feed_id, output, idVars, extVars, written >>

\* return await async_parse(): feedparser.parse(content.decode()) in a thread
Parse(i) ==
    /\ pc = "gather"
    /\ tpc[i] = "parse"
    /\ AllStarted
    /\ IF DecodeRaises(content[i])
       THEN /\ tpc' = [tpc EXCEPT ![i] = "failed"]
            /\ UNCHANGED feeds
       ELSE /\ tpc' = [tpc EXCEPT ![i] = "done"]
            /\ feeds' = [feeds EXCEPT ![i] = Feed(content[i])]
    /\ UNCHANGED << feed_urls, max_age, server, now, cache, pc, cache_age, content,
                    status, nreq, feed_id, output, idVars, extVars, written >>

\* a gather() that collects exceptions instead of raising the first one
MergeIgnoringFailures ==
    /\ pc = "gather"
    /\ \A i \in Tasks : tpc[i] \in { "done", "failed" }
    /\ LET entries == Chain(feeds)
       IN  IF SortRaises(entries)
           THEN pc' = "failed" /\ UNCHANGED output
           ELSE pc' = "emitted" /\ output' = SortedEntries(entries)
    /\ UNCHANGED << feed_urls, max_age, server, now, cache, tpc, cache_age, content,
                    status, nreq, feeds, feed_id, idVars, extVars, written >>

\* a merge that starts once every task has its bytes, parsed or not
MergeBeforeParsed ==
    /\ pc = "gather"
    /\ AllStarted
    /\ \A i \in Tasks : tpc[i] \in { "parse", "done" }
    /\ LET entries == Chain(feeds)
       IN  IF SortRaises(entries)
           THEN pc' = "failed" /\ UNCHANGED output
           ELSE pc' = "emitted" /\ output' = SortedEntries(entries)
    /\ UNCHANGED << feed_urls, max_age, server, now, cache, tpc, cache_age, content,
                    status, nreq, feeds, feed_id, output, idVars, extVars, written >>

\* gather() returned every task's feed: sort the entries, add them to the
\* feed generator in that order, return fg.atom_str()
Merge ==
    /\ pc = "gather"
    /\ \A i \in Tasks : tpc[i] = "done"
    /\ LET entries == Chain(feeds)
       IN  IF SortRaises(entries)
           THEN pc' = "failed" /\ UNCHANGED output
           ELSE pc' = "emitted" /\ output' = SortedEntries(entries)
    /\ UNCHANGED << feed_urls, max_age, server, now, cache, tpc, cache_age, content,
                    status, nreq, feeds, feed_id, idVars, extVars, written >>

\* gather() raised the first task's exception: the session is closed, the
\* exception leaves generate_hybrid_feed, and asyncio.run cancels the tasks
\* that are still waiting
GatherFail ==
    /\ pc = "gather"
    /\ \E i \in Tasks : tpc[i] = "failed"
    /\ pc' = "failed"
    /\ tpc' = [i \in Tasks |-> IF tpc[i] \in { "get", "read", "parse" }
                               THEN "cancelled" ELSE tpc[i]]
    /\ UNCHANGED << feed_urls, max_age, server, now, cache, cache_age, content,
                    status, nreq, feeds, feed_id, output, idVars, extVars, written >>

\* time passes while the run is under way
Tick ==
    /\ pc \in { "main", "gather" }
    /\ now < MaxTime
    /\ now' = now + 1
    /\ UNCHANGED << feed_urls, max_age, server, cache, pc, tpc, cache_age, content,
                    status, nreq, feeds, feed_id, output, idVars, extVars, written >>

Next ==
    \/ Begin
    \/ \E i \in Tasks : Start(i)
    \/ \E i \in Tasks : GetResp(i)
    \/ \E i \in Tasks : ReadBody(i)
    \/ \E i \in Tasks : Parse(i)
    \/ Merge
    \/ GatherFail
    \/ Tick

Spec == Init /\ [][Next]_vars

\* a step of the program itself (time passing is not one)
Progress ==
    \/ Begin
    \/ \E i \in Tasks : Start(i)
    \/ \E i \in Tasks : GetResp(i)
    \/ \E i \in Tasks : ReadBody(i)
    \/ \E i \in Tasks : Parse(i)
    \/ Merge
    \/ GatherFail

\* the runs whose ending is checked: the clock stands still, so a file that
\* is there is fresh under any max_age and a missing one is fetched
InitLive == Init /\ max_age = 0

\* the event loop runs whatever is ready, every request gets its response or
\* its error, every parse returns
SpecLive == InitLive /\ [][Progress]_vars /\ WF_vars(Progress)

(* ----------------------- one run, failing disk ------------------------- *)
\* a file open("wb") truncated and nothing was written to yet
EmptyFile == [exists |-> TRUE, content |-> "", mtime |-> now]

\* content = await resp.content.read() returned, then open(cache_path, "wb")
\* or f.write(content) raises OSError: nothing catches it, parse_feed raises.
\* The file is as it was (open failed) or truncated (write failed).
WriteFails(i) ==
    /\ pc = "gather"
    /\ tpc[i] = "read"
    /\ content' = [content EXCEPT ![i] = server[feed_urls[i]]]
    /\ \E f \in { FileOfUrl(feed_urls[i]), EmptyFile } :
          cache' = [cache EXCEPT ![CachePath(feed_urls[i])] = f]
    /\ raised' = [raised EXCEPT ![i] = "write"]
    /\ tpc' = [tpc EXCEPT ![i] = "failed"]
    /\ UNCHANGED << feed_urls, max_age, server, now, pc, cache_age, status, nreq,
                    feeds, feed_id, output, idVars, written,
                    peer_seen, run, ua, ub, ka, kb >>

\* the file is there and fresh, but open(cache_path, "rb") or f.read() raises
\* OSError: nothing catches it, parse_feed raises without calling sess.get
ReadFails(i) ==
    /\ pc = "gather"
    /\ tpc[i] = "start"
    /\ ~NeedsFetch(get_file_age(CachePath(feed_urls[i])))
    /\ cache_age' = [cache_age EXCEPT ![i] = get_file_age(CachePath(feed_urls[i]))]
    /\ raised' = [raised EXCEPT ![i] = "read"]
    /\ tpc' = [tpc EXCEPT ![i] = "failed"]
    /\ UNCHANGED << feed_urls, max_age, server, now, cache, pc, content, status, nreq,
                    feeds, feed_id, output, idVars, written,
                    peer_seen, run, ua, ub, ka, kb >>

NextFaults ==
    \/ Next
    \/ \E i \in Tasks : WriteFails(i)
    \/ \E i \in Tasks : ReadFails(i)

SpecFaults == Init /\ [][NextFaults]_vars

(* ------------- one run, another process on the same cache ------------- *)
\* no task of this process is between open(cache_path, "wb") and the end of
\* the with block: that stretch has no await, so no other task runs in it
NoWriter == \A i \in Tasks : tpc[i] # "write"

\* content = await resp.content.read(); open(cache_path, "wb") creates or
\* truncates the file in place
OpenForWrite(i) ==
    /\ pc = "gather"
    /\ NoWriter
    /\ tpc[i] = "read"
    /\ content' = [content EXCEPT ![i] = server[feed_urls[i]]]
    /\ cache' = [cache EXCEPT ![CachePath(feed_urls[i])] = EmptyFile]
    /\ tpc' = [tpc EXCEPT ![i] = "write"]
    /\ UNCHANGED << feed_urls, max_age, server, now, pc, cache_age, status, nreq,
                    feeds, feed_id, output, idVars, extVars, written >>

\* f.write(content) and the end of the with block: the bytes are in the file
WriteBytes(i) ==
    /\ tpc[i] = "write"
    /\ cache' = [cache EXCEPT ![CachePath(feed_urls[i])] =
                    [exists |-> TRUE, content |-> content[i], mtime |-> now]]
    /\ written' = written \cup { [file |-> CachePath(feed_urls[i]),
                                   content |-> content[i], time |-> now] }
    /\ tpc' = [tpc EXCEPT ![i] = "parse"]
    /\ UNCHANGED << feed_urls, max_age, server, now, pc, cache_age, content, status,
                    nreq, feeds, feed_id, output, idVars, extVars >>

\* parse_feed in another process of the program, same CACHE_ROOT and max_age:
\* it finds the file fresh and reads it
PeerRead(p) ==
    /\ ~NeedsFetch(get_file_age(p))
    /\ peer_seen' = cache[p].content
    /\ UNCHANGED << runVars, idVars, raised, run, ua, ub, ka, kb, written >>

NextShared ==
    \/ NoWriter /\ Begin
    \/ \E i \in Tasks : NoWriter /\ Start(i)
    \/ \E i \in Tasks : NoWriter /\ GetResp(i)
    \/ \E i \in Tasks : OpenForWrite(i)
    \/ \E i \in Tasks : WriteBytes(i)
    \/ \E i \in Tasks : NoWriter /\ Parse(i)
    \/ Merge
    \/ NoWriter /\ GatherFail
    \/ \E p \in CacheKeys : PeerRead(p)
    \/ Tick

SpecShared == Init /\ [][NextShared]_vars

(* ------------------ several runs, one after the other ------------------ *)
\* what the servers answer in SpecRuns
RunResponses == { "err", "x1", "x2" }

\* the answers of the servers of the URLs of a list; a server that is not
\* asked is left out of the picture (as one that answers an error)
RunServers(urls) ==
    { sv \in [Urls -> RunResponses] :
        \A u \in Urls : (\A k \in 1..Len(urls) : urls[k] # u) => sv[u] = "err" }

\* the first run finds CACHE_ROOT empty
InitRuns ==
    /\ feed_urls \in SeqsOf(Urls, 1, MaxRunUrls)
    /\ max_age \in 0..MaxMaxAge
    /\ server \in RunServers(feed_urls)
    /\ now = 0
    /\ cache = [k \in CacheKeys |-> NoFile]
    /\ pc = "main"
    /\ tpc = [i \in 1..Len(feed_urls) |-> "new"]
    /\ cache_age = [i \in 1..Len(feed_urls) |-> NoAge]
    /\ content = [i \in 1..Len(feed_urls) |-> ""]
    /\ status = [i \in 1..Len(feed_urls) |-> ""]
    /\ nreq = [i \in 1..Len(feed_urls) |-> 0]
    /\ feeds = [i \in 1..Len(feed_urls) |-> <<>>]
    /\ feed_id = NoId
    /\ output = <<>>
    /\ lhs = <<>> /\ rhs = <<>> /\ idl = NoId /\ idr = NoId
    /\ raised = [i \in 1..Len(feed_urls) |-> ""]
    /\ written = {}
    /\ peer_seen = NotRead /\ run = 1
    /\ ua = <<>> /\ ub = <<>> /\ ka = <<>> /\ kb = <<>>

\* the program ended and is started again, with other arguments and other
\* answers from the servers; the cache files and the clock stay
NewRun ==
    /\ pc \in { "emitted", "failed" }
    /\ run < MaxRuns
    /\ run' = run + 1
    /\ feed_urls' \in SeqsOf(Urls, 1, MaxRunUrls)
    /\ max_age' \in 0..MaxMaxAge
    /\ server' \in RunServers(feed_urls')
    /\ pc' = "main"
    /\ tpc' = [i \in 1..Len(feed_urls') |-> "new"]
    /\ cache_age' = [i \in 1..Len(feed_urls') |-> NoAge]
    /\ content' = [i \in 1..Len(feed_urls') |-> ""]
    /\ status' = [i \in 1..Len(feed_urls') |-> ""]
    /\ nreq' = [i \in 1..Len(feed_urls') |-> 0]
    /\ feeds' = [i \in 1..Len(feed_urls') |-> <<>>]
    /\ raised' = [i \in 1..Len(feed_urls') |-> ""]
    /\ feed_id' = NoId
    /\ output' = <<>>
    /\ UNCHANGED << now, cache, written, idVars, peer_seen, ua, ub, ka, kb >>

NextRuns ==
    \/ Next
    \/ NewRun

SpecRuns == InitRuns /\ [][NextRuns]_vars

(* ------------------- the identity of two URL lists --------------------- *)
InitIdentity ==
    /\ lhs \in SeqsOf(IdUrls, 1, MaxIdUrls)
    /\ rhs \in SeqsOf(IdUrls, 1, MaxIdUrls)
    /\ idl = NoId /\ idr = NoId
    /\ feed_urls = <<>> /\ max_age = 0 /\ now = 0
    /\ server = [u \in Urls |-> "err"]
    /\ cache = [k \in CacheKeys |-> NoFile]
    /\ pc = "idle"
    /\ tpc = <<>> /\ cache_age = <<>> /\ content = <<>> /\ status = <<>>
    /\ nreq = <<>> /\ feeds = <<>>
    /\ feed_id = NoId
    /\ output = <<>>
    /\ raised = <<>> /\ written = {} /\ peer_seen = NotRead /\ run = 1
    /\ ua = <<>> /\ ub = <<>> /\ ka = <<>> /\ kb = <<>>

\* digest = ...; fg.id(f"feed-{digest}"), for each of the two lists
ComputeIdentity ==
    /\ idl = NoId
    /\ idl' = FeedId(lhs)
    /\ idr' = FeedId(rhs)
    /\ UNCHANGED << lhs, rhs, runVars, extVars, written >>

NextIdentity == ComputeIdentity

SpecIdentity == InitIdentity /\ [][NextIdentity]_vars

(* ---------------------- the cache paths of two URLs -------------------- *)
\* the URLs whose cache paths are compared
KeyUrls == SeqsOf({ "a", "A", "B", "/" }, 1, MaxKeyUrlLen)

InitKey ==
    /\ ua \in KeyUrls /\ ub \in KeyUrls
    /\ ka = <<>> /\ kb = <<>>
    /\ lhs = <<>> /\ rhs = <<>> /\ idl = NoId /\ idr = NoId
    /\ feed_urls = <<>> /\ max_age = 0 /\ now = 0
    /\ server = [u \in Urls |-> "err"]
    /\ cache = [k \in CacheKeys |-> NoFile]
    /\ pc = "idle"
    /\ tpc = <<>> /\ cache_age = <<>> /\ content = <<>> /\ status = <<>>
    /\ nreq = <<>> /\ feeds = <<>>
    /\ feed_id = NoId
    /\ output = <<>>
    /\ raised = <<>> /\ written = {} /\ peer_seen = NotRead /\ run = 1

\* cache_path = CACHE_ROOT / re.sub("[^a-z0-9-]+", "-", url), for each URL
ComputeKeys ==
    /\ ka = <<>>
    /\ ka' = CachePath(ua)
    /\ kb' = CachePath(ub)
    /\ UNCHANGED << ua, ub, runVars, idVars, raised, peer_seen, run, written >>

NextKey == ComputeKeys

SpecKey == InitKey /\ [][NextKey]_vars

(* ------------------------------ properties ----------------------------- *)
Range(l) == { l[k] : k \in 1..Len(l) }

Distinct(l) == Cardinality(Range(l)) = Len(l)

\* the file of task i's URL
FileOf(i) == cache[CachePath(feed_urls[i])]

\* C1: a call of parse_feed asks the network exactly when the cache file is
\* missing or older than max_age (A > T); otherwise it takes the file's bytes
\* as they are and never asks the network during the call.
C1_CacheFreshness ==
    [][\A i \in Tasks :
         /\ (tpc[i] = "start" /\ tpc'[i] # "start") =>
               LET f == FileOf(i)
                   stale == ~f.exists \/ now - f.mtime > max_age
               IN  /\ stale => nreq'[i] = 1 /\ tpc'[i] = "get"
                   /\ ~stale => /\ nreq'[i] = 0
                                /\ content'[i] = f.content
                                /\ tpc'[i] = "parse"
         /\ tpc[i] \notin { "new", "start" } => nreq'[i] = nreq[i]
      ]_vars

\* a run where one call used a file exactly max_age old and another call
\* found its file too old and asked the network
C1_Witness ==
    \E i, j \in Tasks :
        /\ tpc[i] = "done" /\ nreq[i] = 0 /\ cache_age[i] = max_age
        /\ tpc[j] = "done" /\ nreq[j] = 1 /\ cache_age[j] > max_age

\* out is l sorted by descending key, entries with equal keys in the order
\* they have in l
IsStableDescendingSortOf(out, l) ==
    /\ Len(out) = Len(l)
    /\ \E p \in Permutations(1..Len(l)) :
          /\ \A k \in 1..Len(l) : out[k] = l[p[k]]
          /\ \A k, m \in 1..Len(l) :
                k < m => \/ SortKey(out[k]) > SortKey(out[m])
                         \/ SortKey(out[k]) = SortKey(out[m]) /\ p[k] < p[m]

\* C2: the emitted entries are the feeds' entries, feeds in input order,
\* sorted by descending updated-else-published key, and entries with equal
\* keys keep the order they had in the flattened input.
C2_MergeOrdering ==
    pc = "emitted" => IsStableDescendingSortOf(output, Chain(feeds))

\* four entries of two feeds were reordered, two neighbours with equal keys
C2_Witness ==
    /\ pc = "emitted"
    /\ Len(output) = 4
    /\ output # Chain(feeds)
    /\ \E k \in 1..3 : /\ SortKey(output[k]) = SortKey(output[k + 1])
                       /\ output[k].guid # output[k + 1].guid

\* C3: two lists of distinct URLs with the same set of URLs get the same
\* feed id; two lists of distinct URLs with different sets get different
\* digest inputs.
C3_IdentityDeterminism ==
    (idl # NoId /\ Distinct(lhs) /\ Distinct(rhs)) =>
        /\ Range(lhs) = Range(rhs) => idl = idr
        /\ Range(lhs) # Range(rhs) => idl.sha256_of # idr.sha256_of

\* the ids of two different orders of the same three URLs were computed
C3_Witness ==
    /\ idl # NoId /\ idl = idr
    /\ Len(lhs) = 3 /\ Distinct(lhs) /\ Distinct(rhs)
    /\ Range(lhs) = Range(rhs)
    /\ lhs # rhs

\* C4: the feed id depends only on the set of URLs given: two lists with the
\* same set of URLs, however often each URL occurs, get the same feed id.
C4_IdentityOfUrlSet ==
    (idl # NoId /\ Range(lhs) = Range(rhs)) => idl = idr

\* C5: when an entry of a fetched feed has neither timestamp, nothing is
\* emitted.
C5_MissingTimestampRejected ==
    (\E i \in Tasks : \E k \in 1..Len(feeds[i]) :
        feeds[i][k].updated = NoTime /\ feeds[i][k].published = NoTime)
    => pc # "emitted"

\* C6: a feed is emitted only when every task returned its feed; once a
\* task has failed nothing is ever emitted.
C6_FailFast ==
    /\ pc = "emitted" => \A i \in Tasks : tpc[i] = "done"
    /\ (\E i \in Tasks : tpc[i] = "failed") => pc # "emitted" /\ output = <<>>

\* the run failed on one task although another had returned its feed
C6_Witness ==
    /\ pc = "failed"
    /\ \E i, j \in Tasks : tpc[i] = "failed" /\ tpc[j] = "done" /\ feeds[j] # <<>>

\* C7: when the run has failed on an HTTP error status, the cache holds the
\* served bytes of every other URL that was fetched live and whose server
\* answers 200.
C7_SuccessfulFetchesCached ==
    (pc = "failed" /\ \E i \in Tasks : status[i] = "err") =>
        \A j \in Tasks :
            (nreq[j] = 1 /\ server[feed_urls[j]] # "err") =>
                FileOf(j).exists /\ FileOf(j).content = server[feed_urls[j]]

\* C8: a call that found the file missing or too old and got an error status
\* fails; it has no content and returns no feed.
C8_NoStaleFallback ==
    \A i \in Tasks :
        (NeedsFetch(cache_age[i]) /\ status[i] = "err") =>
            tpc[i] = "failed" /\ content[i] = "" /\ feeds[i] = <<>>

\* a call failed on an error status while a too old file was there to use
C8_Witness ==
    \E i \in Tasks :
        /\ status[i] = "err" /\ tpc[i] = "failed"
        /\ cache_age[i] > max_age
        /\ FileOf(i).exists

\* C9: a call of parse_feed calls sess.get at most once.
C9_AtMostOneRequest ==
    \A i \in Tasks : nreq[i] <= 1

\* a call got an error status for its one request and failed
C9_Witness ==
    \E i \in Tasks : status[i] = "err" /\ tpc[i] = "failed" /\ nreq[i] = 1

\* C10: with max_age = 0 every call of parse_feed asks the network.
C10_ZeroMaxAgeForcesFetch ==
    max_age = 0 => \A i \in Tasks : tpc[i] \notin { "new", "start" } => nreq[i] = 1

\* C11: a call whose cache write failed still succeeds and has the freshly
\* fetched bytes.
C11_WriteFailureIgnored ==
    \A i \in Tasks :
        raised[i] = "write" => tpc[i] # "failed" /\ content[i] = server[feed_urls[i]]

\* C12: a call that could not read its fresh cache file goes to the network
\* instead of failing.
C12_ReadFailureIsMiss ==
    \A i \in Tasks :
        raised[i] = "read" => tpc[i] # "failed" /\ nreq[i] = 1

\* C13: whatever a reader takes from a fresh cache file is a complete
\* payload, the one the file held before a write or the one written, never
\* the empty or partial file of a write under way.
C13_AtomicPut ==
    peer_seen \in { NotRead, "x0" } \cup { server[u] : u \in Urls }

\* C14: generate_hybrid_feed leaves its await on gather() either with every
\* task returned, and only then sorts and emits, or because a task failed,
\* and then it fails without sorting or emitting anything.
C14_MergeBarrier ==
    [][(pc = "gather" /\ pc' # "gather") =>
          \/ \A i \in Tasks : tpc[i] = "done" /\ feeds[i] = Feed(content[i])
          \/ /\ \E i \in Tasks : tpc[i] = "failed"
             /\ pc' = "failed"
             /\ output' = <<>>
      ]_vars

\* a feed was emitted from one task that read its cache file and one that
\* went through the network and finished later
C14_Witness ==
    /\ pc = "emitted"
    /\ \E i, j \in Tasks : nreq[i] = 0 /\ nreq[j] = 1
    /\ \A i \in Tasks : tpc[i] = "done"

\* how often e occurs in seq
Count(seq, e) == Cardinality({ k \in 1..Len(seq) : seq[k] = e })

\* how often e occurs in the feeds of the payloads the tasks took
CountInPayloads(e) ==
    Cardinality({ jk \in UNION { { <<j, k>> : k \in 1..Len(Feed(content[j])) } : j \in Tasks } :
                    Feed(content[jk[1]])[jk[2]] = e })

\* C15: every occurrence of a URL in the list has its own task, which looks
\* at the cache file itself and, finding it missing or too old, sends its own
\* request; the emitted feed has the entries of every occurrence (k times for
\* k occurrences that took the same bytes), and the file of a URL fetched
\* live holds the complete payload served.
C15_DuplicatesIndependent ==
    /\ \A i \in Tasks :
          tpc[i] \notin { "new", "start" } =>
              (nreq[i] = 1 <=> (cache_age[i] = NoAge \/ cache_age[i] > max_age))
    /\ pc = "emitted" =>
          \A i \in Tasks :
              /\ content[i] # ""
              /\ \A k \in 1..Len(Feed(content[i])) :
                    Count(output, Feed(content[i])[k]) = CountInPayloads(Feed(content[i])[k])
              /\ nreq[i] = 1 =>
                    FileOf(i) \in { [exists |-> TRUE, content |-> server[feed_urls[i]], mtime |-> t] :
                                       t \in 0..now }

\* the same URL twice, both tasks sent a request, its two entries are in the
\* emitted feed twice
C15_Witness ==
    /\ pc = "emitted"
    /\ \E i, j \in Tasks :
          /\ i < j /\ feed_urls[i] = feed_urls[j]
          /\ nreq[i] = 1 /\ nreq[j] = 1
          /\ Len(Feed(content[i])) = 2
          /\ \A k \in 1..2 : Count(output, Feed(content[i])[k]) = 2

\* the characters the claim keeps: letters of either case, digits and "-"
KeyCharsAnyCase ==
    KeyChars \cup { "A", "B", "C", "D", "E", "F", "G", "H", "I", "J", "K", "L", "M",
                    "N", "O", "P", "Q", "R", "S", "T", "U", "V", "W", "X", "Y", "Z" }

\* the key the claim describes: every maximal run of other characters
\* becomes one "-"
RECURSIVE ReSubAnyCase(_, _)
ReSubAnyCase(s, inRun) ==
    IF s = <<>> THEN <<>>
    ELSE IF Head(s) \in KeyCharsAnyCase THEN <<Head(s)>> \o ReSubAnyCase(Tail(s), FALSE)
    ELSE IF inRun THEN ReSubAnyCase(Tail(s), TRUE)
    ELSE <<"-">> \o ReSubAnyCase(Tail(s), TRUE)

\* s and t are the same but for one place, where both have an upper-case
\* letter, a different one
DifferInOneUpperCase(s, t) ==
    /\ Len(s) = Len(t)
    /\ \E k \in 1..Len(s) :
          /\ s[k] # t[k]
          /\ { s[k], t[k] } \subseteq (KeyCharsAnyCase \ KeyChars)
          /\ \A m \in 1..Len(s) : m # k => s[m] = t[m]

\* C16: the cache key keeps letters of either case, digits and "-" and puts
\* one "-" for every maximal run of other characters, so two URLs that
\* differ only in an upper-case letter have different keys.
C16_KeyNormalization ==
    ka # <<>> =>
        /\ ka = ReSubAnyCase(ua, FALSE)
        /\ kb = ReSubAnyCase(ub, FALSE)
        /\ DifferInOneUpperCase(ua, ub) => ka # kb

\* C17: the steps of a call whose live fetch gets an error status (sending
\* the request, getting the response and failing) leave every cache file,
\* its bytes, its mtime or its absence, as it was.
C17_FailedFetchKeepsCache ==
    [][\A i \in Tasks :
          ( /\ server[feed_urls[i]] = "err"
            /\ \/ tpc[i] = "start" /\ tpc'[i] = "get"
               \/ tpc[i] = "get" /\ tpc'[i] = "failed" )
          => cache' = cache
      ]_vars

\* a call failed on an error status; its URL still has no file, the other
\* URL's file is the one the run began with
C17_Witness ==
    \E i \in Tasks :
        /\ status[i] = "err" /\ tpc[i] = "failed"
        /\ FileOf(i) = NoFile
        /\ \E p \in CacheKeys : cache[p] = [exists |-> TRUE, content |-> "x0", mtime |-> 0]

\* C18: a call that takes its bytes from the cache file leaves the file, its
\* mtime included, as it was, and the bytes it takes were written to that
\* file by a live fetch that got a 200, no more than max_age before the call.
C18_BoundedStaleness ==
    [][\A i \in DOMAIN tpc :
          (tpc[i] = "start" /\ tpc'[i] = "parse") =>
              /\ cache' = cache
              /\ \E w \in written :
                    /\ w.file = CachePath(feed_urls[i])
                    /\ w.content = content'[i]
                    /\ w.content \in RunResponses \ { "err" }
                    /\ w.time <= now
                    /\ now - w.time <= max_age
      ]_vars

\* a later run took from the cache, some time after they were written, the
\* bytes an earlier run had fetched
C18_Witness ==
    /\ run > 1
    /\ \E i \in Tasks :
          /\ tpc[i] = "done" /\ nreq[i] = 0
          /\ cache_age[i] > 0
          /\ content[i] = FileOf(i).content
          /\ now - FileOf(i).mtime > max_age

\* C19: every run ends, either with the feed emitted or failed, and stays
\* with that outcome.
Ended == pc \in { "emitted", "failed" }

C19_Termination ==
    /\ <>Ended
    /\ [][Ended => (pc' = pc /\ output' = output)]_vars

\* a run ended by failing while a task was still waiting and was cancelled
C19_Witness ==
    /\ pc = "failed"
    /\ \E i, j \in Tasks : tpc[i] = "failed" /\ tpc[j] = "cancelled"

====
